---------------------------- MODULE Spec2Model ----------------------------
(***************************************************************************)
(* Two-mirrors optics puzzle (src/App.tsx, src/components/*,               *)
(* src/unnamed/part_000 = utils/geometry.ts).                              *)
(*                                                                         *)
(* The module models the ray tracer of geometry.ts, the simulation and the *)
(* placement constraint checker of App.tsx, and the challenge state        *)
(* machine of the interaction-end variants of App.tsx (lines 341-846, with *)
(* the "Skip to Challenge 2" option, and lines 848-1305, without it).      *)
(*                                                                         *)
(* Numbers.  TLC has 32-bit integers only, so the floating point geometry  *)
(* is carried in polar form:                                               *)
(*   - an angle is an integer number of 1/AngleUnit degrees;               *)
(*   - sines and cosines are integers scaled by 10000 (SinTable);          *)
(*   - a point is a sum of polar terms [r, a] (length r at angle a): the   *)
(*     light source is <<[r |-> fixedIncidentDist, a |-> 0],               *)
(*     [r |-> sourceDist, a |-> incidentAngle]>>, a point of a mirror is   *)
(*     <<[r |-> distance from the hinge, a |-> angle of the mirror]>>;     *)
(*   - a direction is its angle (the code keeps unit vectors).             *)
(* In this form the cross products of intersectRaySegment are sums of      *)
(* r * sin(difference of angles), and a point of a mirror has cross        *)
(* product exactly 0 with that mirror, as it has in exact arithmetic.      *)
(***************************************************************************)
EXTENDS Integers, Sequences, FiniteSets, TLC

(***************************************************************************)
(* Resolution of the angles: units per degree.                             *)
(***************************************************************************)
AngleUnit == 2

Deg(n) == n * AngleUnit

FullTurn == Deg(360)

(***************************************************************************)
(* The element of a one-element set.  Only({ e(x) : x \in { v } }) is e(v) *)
(* with v computed once.                                                   *)
(***************************************************************************)
Only(S) == CHOOSE x \in S : TRUE

Abs(x) == IF x < 0 THEN -x ELSE x

Max(a, b) == IF a >= b THEN a ELSE b

Min(a, b) == IF a <= b THEN a ELSE b

(***************************************************************************)
(* Math.round on a value given in angle units: the nearest whole number of *)
(* degrees, halves rounded up (floor(x + 0.5)).                            *)
(***************************************************************************)
MathRound(a) == (2 * a + AngleUnit) \div (2 * AngleUnit)

(***************************************************************************)
(* Math.sin(degToRad(d)) * 10000 for d = 0 .. 90 degrees.                  *)
(***************************************************************************)
SinTable ==
   << 0, 175, 349, 523, 698, 872, 1045, 1219, 1392, 1564, 1736, 1908, 2079,
      2250, 2419, 2588, 2756, 2924, 3090, 3256, 3420, 3584, 3746, 3907, 4067, 4226,
      4384, 4540, 4695, 4848, 5000, 5150, 5299, 5446, 5592, 5736, 5878, 6018, 6157,
      6293, 6428, 6561, 6691, 6820, 6947, 7071, 7193, 7314, 7431, 7547, 7660, 7771,
      7880, 7986, 8090, 8192, 8290, 8387, 8480, 8572, 8660, 8746, 8829, 8910, 8988,
      9063, 9135, 9205, 9272, 9336, 9397, 9455, 9511, 9563, 9613, 9659, 9703, 9744,
      9781, 9816, 9848, 9877, 9903, 9925, 9945, 9962, 9976, 9986, 9994, 9998, 10000 >>

SinDeg(d) ==
   LET e == d % 360
   IN  IF e <= 90 THEN SinTable[e + 1]
       ELSE IF e <= 180 THEN SinTable[180 - e + 1]
       ELSE IF e <= 270 THEN -SinTable[e - 180 + 1]
       ELSE -SinTable[360 - e + 1]

(***************************************************************************)
(* Math.sin(degToRad(a)) * 10000 for an angle a in angle units (any        *)
(* integer: the functions are periodic), linear between whole degrees.     *)
(***************************************************************************)
SinUnits ==
   [n \in 0 .. (FullTurn - 1) |->
      LET lo == n \div AngleUnit
          fr == n % AngleUnit
      IN  SinDeg(lo) + ((SinDeg(lo + 1) - SinDeg(lo)) * fr) \div AngleUnit]

Sin(a) == SinUnits[a % FullTurn]

Cos(a) == Sin(a + Deg(90))

(***************************************************************************)
(* geometry.ts                                                             *)
(***************************************************************************)
infiniteLength == 50000

maxBounces == 20

CrossTerm(t, a) == t.r * Sin(t.a - a)

(***************************************************************************)
(* ux * Py - uy * Px for the unit vector u at angle a, times 10000.        *)
(***************************************************************************)
Cross(P, a) ==
   IF Len(P) = 1 THEN CrossTerm(P[1], a)
   ELSE CrossTerm(P[1], a) + CrossTerm(P[2], a)

NoHit == [hit |-> FALSE, tInt |-> 0, tFrac |-> 0, point |-> << >>, normal |-> 0]

(***************************************************************************)
(* Variant: the normal (-v4, v3) as it is, never negated.                  *)
(***************************************************************************)
intersectRaySegmentLeftNormal(rayOrigin, rayDir, alpha) ==
   LET det == Sin(alpha - rayDir)
       sg  == IF det < 0 THEN -1 ELSE 1
       d   == sg * det
       n1  == sg * Cross(rayOrigin, alpha)
       n2  == sg * Cross(rayOrigin, rayDir)
   IN  IF det = 0 THEN NoHit
       ELSE IF n1 > d \div 1000 /\ n2 >= 0 /\ n2 <= infiniteLength * d
            THEN [hit   |-> TRUE,
                  tInt  |-> n1 \div d,
                  tFrac |-> ((n1 % d) * 1000) \div d,
                  point |-> << [r |-> (2 * n2 + d) \div (2 * d), a |-> alpha] >>,
                  normal |-> (alpha + Deg(90)) % FullTurn]
            ELSE NoHit

(***************************************************************************)
(* Variant: a hit at ray parameter 0 counts (t1 >= 0 instead of            *)
(* t1 > 0.001).                                                            *)
(***************************************************************************)
intersectRaySegmentNoEpsilon(rayOrigin, rayDir, alpha) ==
   LET det == Sin(alpha - rayDir)
       sg  == IF det < 0 THEN -1 ELSE 1
       d   == sg * det
       n1  == sg * Cross(rayOrigin, alpha)
       n2  == sg * Cross(rayOrigin, rayDir)
       nrm == alpha + Deg(90)
   IN  IF det = 0 THEN NoHit
       ELSE IF n1 >= 0 /\ n2 >= 0 /\ n2 <= infiniteLength * d
            THEN [hit   |-> TRUE,
                  tInt  |-> n1 \div d,
                  tFrac |-> ((n1 % d) * 1000) \div d,
                  point |-> << [r |-> (2 * n2 + d) \div (2 * d), a |-> alpha] >>,
                  normal |-> IF Cos(nrm - rayDir) > 0
                             THEN (nrm + Deg(180)) % FullTurn
                             ELSE nrm % FullTurn]
            ELSE NoHit

(***************************************************************************)
(* intersectRaySegment(rayOrigin, rayDir, p1 = hinge, p2 = far end of the  *)
(* mirror at angle alpha).  With u the unit vector of the mirror:          *)
(*   det = v5*v4 - v6*v3 = infiniteLength * sin(alpha - rayDir)            *)
(*   t1  = (v3*v2 - v4*v1) / det = Cross(origin, alpha) / sin(..)          *)
(*   t2  = (v5*v2 - v6*v1) / det = Cross(origin, rayDir) / sin(..)         *)
(*         / infiniteLength                                                *)
(* The ray parameter t1 is returned as whole part and thousandths.  The    *)
(* normal is returned as its angle: (-v4, v3) is the mirror turned by 90   *)
(* degrees, negated when its dot product with rayDir is positive.          *)
(***************************************************************************)
intersectRaySegment(rayOrigin, rayDir, alpha) ==
   LET det == Sin(alpha - rayDir)
       sg  == IF det < 0 THEN -1 ELSE 1
       d   == sg * det
       n1  == sg * Cross(rayOrigin, alpha)
       n2  == sg * Cross(rayOrigin, rayDir)
       nrm == alpha + Deg(90)
   IN  IF det = 0 THEN NoHit                                  \* Parallel
       ELSE IF /\ n1 > d \div 1000                            \* t1 > 0.001
               /\ n2 >= 0                                     \* t2 >= 0
               /\ n2 <= infiniteLength * d                     \* t2 <= 1
            THEN [hit   |-> TRUE,
                  tInt  |-> n1 \div d,
                  tFrac |-> ((n1 % d) * 1000) \div d,
                  point |-> << [r |-> (2 * n2 + d) \div (2 * d), a |-> alpha] >>,
                  normal |-> IF Cos(nrm - rayDir) > 0
                             THEN (nrm + Deg(180)) % FullTurn
                             ELSE nrm % FullTurn]
            ELSE NoHit

(***************************************************************************)
(* a / b rounded to the nearest integer: the rounding that every           *)
(* arithmetic operation on numbers of limited precision performs.          *)
(***************************************************************************)
RoundDiv(a, b) == (2 * a + b) \div (2 * b)

(***************************************************************************)
(* The unit vector { x: Math.cos(rad), y: Math.sin(rad) } at angle a,      *)
(* components times 10000.                                                 *)
(***************************************************************************)
unitVector(a) == [x |-> Cos(a), y |-> Sin(a)]

(***************************************************************************)
(* Variant: v - dot * n, the projection onto the mirror line.              *)
(***************************************************************************)
reflectVectorXYProjected(v, n) ==
   LET dot == RoundDiv(v.x * n.x + v.y * n.y, 10000)
   IN  [x |-> v.x - RoundDiv(dot * n.x, 10000),
        y |-> v.y - RoundDiv(dot * n.y, 10000)]

(***************************************************************************)
(* reflectVector on components: v - 2 * dot * n with dot = v . n, every    *)
(* product rounded to the precision of the components (1 / 10000).         *)
(***************************************************************************)
reflectVectorXY(v, n) ==
   LET dot == RoundDiv(v.x * n.x + v.y * n.y, 10000)
   IN  [x |-> v.x - RoundDiv(2 * dot * n.x, 10000),
        y |-> v.y - RoundDiv(2 * dot * n.y, 10000)]

(***************************************************************************)
(* reflectVector(v, n) = v - 2 (v.n) n for unit vectors given by their     *)
(* angles: the direction is mirrored about the line at right angles to n.  *)
(***************************************************************************)
reflectVector(dir, n) == (2 * n + Deg(180) - dir) % FullTurn

(***************************************************************************)
(* Variant: hit.t <= minT, so of two equal hits the last mirror of the     *)
(* list stays.                                                             *)
(***************************************************************************)
TLessOrEqual(h, k) == h.tInt < k.tInt \/ (h.tInt = k.tInt /\ h.tFrac <= k.tFrac)

TLess(h, k) == h.tInt < k.tInt \/ (h.tInt = k.tInt /\ h.tFrac < k.tFrac)

(***************************************************************************)
(* The inner loop of calculateRayPath: the closest intersection over the   *)
(* mirrors in list order (hit.t < minT, so of two equal hits the first     *)
(* mirror of the list stays).                                              *)
(***************************************************************************)
RECURSIVE closestIntersection(_, _, _, _, _)
closestIntersection(origin, dir, mirrors, k, best) ==
   IF k > Len(mirrors) THEN best
   ELSE Only({ closestIntersection(origin, dir, mirrors, k + 1,
                  IF hit.hit /\ (~best.hit \/ TLess(hit, best))
                  THEN [mirrorId |-> k] @@ hit
                  ELSE best)
               : hit \in { intersectRaySegment(origin, dir, mirrors[k]) } })

(***************************************************************************)
(* calculateRayPath.  The result has the number of points of path, the     *)
(* mirrors hit in order (with the normal and the ray parameter of every    *)
(* hit), the direction of every leg (dirs[1] the initial direction) and    *)
(* whether the ray escaped (the far point was pushed).                     *)
(***************************************************************************)
RECURSIVE rayLoop(_, _, _, _, _, _, _)
rayLoop(i, currentOrigin, currentDir, mirrors, hits, dirs, found) ==
   IF i >= maxBounces
   THEN [pathLength |-> 1 + Len(hits), hits |-> hits, dirs |-> dirs,
         escaped |-> FALSE, found |-> found]
   ELSE Only({
           IF c.hit
           THEN Only({ rayLoop(i + 1, c.point, nd, mirrors, h, Append(dirs, nd),
                               Append(found, c))
                       : nd \in { reflectVector(currentDir, c.normal) },
                         h \in { Append(hits, c.mirrorId) } })
           ELSE [pathLength |-> 2 + Len(hits), hits |-> hits, dirs |-> dirs,
                 escaped |-> TRUE, found |-> found]
           : c \in { closestIntersection(currentOrigin, currentDir, mirrors, 1,
                                         [mirrorId |-> 0] @@ NoHit) } })

calculateRayPath(startPoint, startAngle, mirrors) ==
   rayLoop(0, startPoint, startAngle % FullTurn, mirrors, << >>,
           << startAngle % FullTurn >>, << >>)

(***************************************************************************)
(* The deflection of the display effect of App.tsx (lines 1742-1764): the  *)
(* angle from the initial ray direction to the direction of the last leg   *)
(* of the path, atan2(cross, dot) folded into [0, 360), in angle units     *)
(* (the effect shows Math.round of it).                                    *)
(***************************************************************************)
lastLeg(path) ==
   IF path.escaped THEN path.dirs[Len(path.dirs)]
   ELSE path.dirs[Len(path.dirs) - 1]

(***************************************************************************)
(* Variant: the angle of the last leg itself, not taken from the initial   *)
(* direction.                                                              *)
(***************************************************************************)
angleDegOfLastLeg(path) == lastLeg(path) % FullTurn

angleDeg(path) == (lastLeg(path) - path.dirs[1]) % FullTurn

currentDeflection(path) == MathRound(angleDeg(path))

(***************************************************************************)
(* App.tsx: the memoized simulation (null while the game is not started,   *)
(* which handleInteractionEnd tests before it reads the result).           *)
(***************************************************************************)
fixedIncidentDist(h) == (h * 6) \div 10

sourcePos(i, s, h) == << [r |-> fixedIncidentDist(h), a |-> 0], [r |-> s, a |-> i] >>

simulation(m, i, s, h) ==
   LET rayAngle == i + Deg(180)      \* atan2 of incidentPoint - sourcePos
   IN  Only({ [pathLength      |-> tr.pathLength,
               reflectionCount |-> Max(0, tr.pathLength - 2),
               rayAngle        |-> rayAngle % FullTurn,
               \* direction of path[length - 1] - path[length - 2]
               lastDir         |-> IF tr.escaped THEN tr.dirs[Len(tr.dirs)]
                                   ELSE tr.dirs[Len(tr.dirs) - 1],
               hits            |-> tr.hits]
              : tr \in { calculateRayPath(sourcePos(i, s, h), rayAngle,
                                          << 0, m >>) } })

(***************************************************************************)
(* The normalized dot product of the initial and the final ray direction,  *)
(* times 10000 (challenge 3 branch of handleInteractionEnd).               *)
(***************************************************************************)
finalDot(sim) == Cos(sim.lastDir - sim.rayAngle)

(***************************************************************************)
(* checkConstraints(mAngle, iAngle, sDist), with handleRadius of the state.*)
(* sx, sy are the source position times 100, cp is times 100.              *)
(***************************************************************************)
BUFFER == -15

checkConstraints(mAngle, iAngle, sDist, h) ==
   LET sx == fixedIncidentDist(h) * 100 + (sDist * Cos(iAngle)) \div 100
       sy == (sDist * Sin(iAngle)) \div 100
       cp == (Cos(mAngle) * sy - Sin(mAngle) * sx) \div 10000
   IN  IF cp > BUFFER * 100 THEN FALSE
       ELSE IF sy < 15 * 100 THEN FALSE
       ELSE TRUE

(***************************************************************************)
(* State.                                                                  *)
(*   variant        which of the two interaction-end snapshots of App.tsx  *)
(*                  runs: "main" (lines 848-1305) or "skip" (lines         *)
(*                  341-846); fixed along a behaviour                      *)
(*   gameState      App's gameState; an optional field (c4StartAngle?,     *)
(*                  c5StartAngle?, c5MirrorAngle?) is << >> when undefined *)
(*                  and << value >> when set                               *)
(*   quizTriggered, mirrorAngle, incidentAngle, sourceDist, handleRadius   *)
(*                  App's useState cells of these names (angles in angle   *)
(*                  units)                                                 *)
(*   timers         the debounced variant's evaluation timers: pending, the *)
(*                  set of timers set and neither fired nor cleared (each  *)
(*                  the values its callback closes over), and cleanup,     *)
(*                  << t >> when the last effect returned the function     *)
(*                  that clears timer t                                    *)
(*   last           history: the last handler that ran, its argument, and  *)
(*                  the challenge id, the points and quizTriggered as it   *)
(*                  found them                                             *)
(***************************************************************************)
VARIABLES variant, gameState, quizTriggered, mirrorAngle, incidentAngle,
          sourceDist, handleRadius, timers, last

vars == << variant, gameState, quizTriggered, mirrorAngle, incidentAngle,
           sourceDist, handleRadius, timers, last >>

config == << mirrorAngle, incidentAngle, sourceDist, handleRadius >>

(***************************************************************************)
(* Inputs of the handlers.  Pointer drags propose whole degrees            *)
(* (Math.round in handlePointerMove), the number inputs of ControlPanel    *)
(* propose Number(e.target.value), which need not be whole nor in range.   *)
(* The values stay clear of the exact boundaries of checkConstraints,      *)
(* where the floating point rounding of the code decides.                  *)
(***************************************************************************)
DragMirrorAngles == { Deg(50), Deg(90), Deg(110), Deg(113), Deg(130) }

DragIncidentAngles == { Deg(60), Deg(100) }

DragSourceDists == { 30, 200 }

NumberMirrorInputs == { Deg(90) - 1, Deg(450) }

NumberIncidentInputs == { Deg(70) }

(***************************************************************************)
(* The +/- buttons of ControlPanel are followed only onto these values     *)
(* (a walk by single degrees would visit every angle).                     *)
(***************************************************************************)
ButtonMirrorAngles == { Deg(90), Deg(91) }

ButtonIncidentAngles == { Deg(100), Deg(101) }

(***************************************************************************)
(* The range sliders of the "slider" snapshot of ControlPanel (lines       *)
(* 282-449) run from min 0 to max 360, both ends included.                 *)
(***************************************************************************)
SliderMirrorAngles == { Deg(110), Deg(360) }

SliderIncidentAngles == { Deg(100), Deg(360) }

(***************************************************************************)
(* Handlers run by one release of a slider: onMouseUp for a mouse,         *)
(* onTouchEnd for a touch, and for a touch the browser takes for a tap     *)
(* onTouchEnd and then the onMouseUp of the compatibility mouse events.    *)
(***************************************************************************)
ReleaseHandlers == { 1, 2 }

HandleRadii == { 100, 140 }

AnswerIndexes == { 0, 1, 2 }

Variants == { "main", "skip" }

(***************************************************************************)
(* WIZARD_TUTORIAL_STEPS.length of the two snapshots.                      *)
(***************************************************************************)
TutorialLength == [main |-> 6, skip |-> 5]

targetAngle == 110

initialGameState ==
   [started      |-> FALSE,
    challenge    |-> 1,
    tutorialStep |-> 0,
    jewels       |-> 0,
    points       |-> 0,
    c1Progress   |-> [methodA |-> FALSE, methodB |-> FALSE],
    c4StartAngle |-> << >>,
    c5StartAngle |-> << >>,
    c5MirrorAngle |-> << >>]

(***************************************************************************)
(* x ?? d                                                                  *)
(***************************************************************************)
Nullish(x, d) == IF x = << >> THEN d ELSE x[1]

(***************************************************************************)
(* handleInteractionEnd, challenge 1: a path with one reflection discovers *)
(* method A (source left of the normal, incidentAngle > 90) or method B    *)
(* (incidentAngle <= 90), each once, for 10 points; with both discovered   *)
(* the same update moves to challenge 2.                                   *)
(***************************************************************************)
(***************************************************************************)
(* Variant: method A is counted again when it is already discovered.       *)
(***************************************************************************)
methodAFoundAgain(g, sim, i) ==
   sim.reflectionCount = 1 /\ i > Deg(90)

methodAFound(g, sim, i) ==
   sim.reflectionCount = 1 /\ i > Deg(90) /\ ~g.c1Progress.methodA

(***************************************************************************)
(* Variant: method B accepts any path that reflects at all.                *)
(***************************************************************************)
methodBFoundLoose(g, sim, i) ==
   sim.reflectionCount >= 1 /\ i <= Deg(90) /\ ~g.c1Progress.methodB

methodBFound(g, sim, i) ==
   sim.reflectionCount = 1 /\ i <= Deg(90) /\ ~g.c1Progress.methodB

(***************************************************************************)
(* Variant: the progress is built afresh instead of from a copy of         *)
(* gameState.c1Progress.                                                   *)
(***************************************************************************)
newProgressAfresh(g, sim, i) ==
   [methodA |-> methodAFound(g, sim, i), methodB |-> methodBFound(g, sim, i)]

newProgress(g, sim, i) ==
   [methodA |-> g.c1Progress.methodA \/ methodAFound(g, sim, i),
    methodB |-> g.c1Progress.methodB \/ methodBFound(g, sim, i)]

(***************************************************************************)
(* Variant: challenge 1 is complete with either method (|| for &&).        *)
(***************************************************************************)
evaluateChallenge1Either(g, sim, i) ==
   LET found    == (IF methodAFound(g, sim, i) THEN 1 ELSE 0)
                   + (IF methodBFound(g, sim, i) THEN 1 ELSE 0)
       progress == newProgress(g, sim, i)
   IN  IF found = 0 THEN g
       ELSE [g EXCEPT !.points = g.points + 10 * found,
                      !.challenge = IF progress.methodA \/ progress.methodB
                                    THEN 2 ELSE g.challenge,
                      !.c1Progress = progress]

evaluateChallenge1(g, sim, i) ==
   LET found    == (IF methodAFound(g, sim, i) THEN 1 ELSE 0)
                   + (IF methodBFound(g, sim, i) THEN 1 ELSE 0)
       progress == newProgress(g, sim, i)
   IN  IF found = 0 THEN g                                \* !updateNeeded
       ELSE [g EXCEPT !.points = g.points + 10 * found,
                      !.challenge = IF progress.methodA /\ progress.methodB
                                    THEN 2 ELSE g.challenge,
                      !.c1Progress = progress]

(***************************************************************************)
(* Challenge 2: two reflections.                                           *)
(***************************************************************************)
(***************************************************************************)
(* Variant: two reflections or more (>= for ===).                          *)
(***************************************************************************)
evaluateChallenge2AtLeast(g, sim) ==
   IF sim.reflectionCount >= 2
   THEN [g EXCEPT !.challenge = 3, !.points = g.points + 10]
   ELSE g

(***************************************************************************)
(* Variant: the pass falls through to the test of challenge 3, so a        *)
(* retro-reflecting path with two reflections moves on to challenge 4.     *)
(***************************************************************************)
evaluateChallenge2FallingThrough(g, sim) ==
   IF sim.reflectionCount = 2
   THEN [g EXCEPT !.challenge = IF finalDot(sim) < -9900 THEN 4 ELSE 3,
                  !.points = g.points + 10]
   ELSE g

evaluateChallenge2(g, sim) ==
   IF sim.reflectionCount = 2
   THEN [g EXCEPT !.challenge = 3, !.points = g.points + 10]
   ELSE g

(***************************************************************************)
(* Challenge 3: two reflections, the ray leaves against its initial        *)
(* direction (dot < -0.99) and the mirror angle rounds to 90.              *)
(***************************************************************************)
(***************************************************************************)
(* Variant: the mirror angle is not tested.                                *)
(***************************************************************************)
challenge3PassedAnyMirror(sim, m) ==
   /\ sim.reflectionCount = 2
   /\ sim.pathLength >= 2
   /\ finalDot(sim) < -9900

challenge3Passed(sim, m) ==
   /\ sim.reflectionCount = 2
   /\ sim.pathLength >= 2
   /\ finalDot(sim) < -9900
   /\ MathRound(m) = 90

evaluateChallenge3(g, sim, m, i) ==
   IF challenge3Passed(sim, m)
   THEN [g EXCEPT !.challenge = 4, !.c4StartAngle = << i >>,
                  !.points = g.points + 10]
   ELSE g

(***************************************************************************)
(* Challenge 4: with the mirror still at 90, quiz 1 is due once the source *)
(* moved by more than 10 degrees from the snapshot.                        *)
(***************************************************************************)
(***************************************************************************)
(* Variant: a move of exactly 10 degrees is enough (>= for >).             *)
(***************************************************************************)
quiz1DueAtTen(g, qt, m, i) ==
   /\ MathRound(m) = 90
   /\ Abs(i - Nullish(g.c4StartAngle, i)) >= Deg(10)
   /\ ~qt

quiz1Due(g, qt, m, i) ==
   /\ MathRound(m) = 90
   /\ Abs(i - Nullish(g.c4StartAngle, i)) > Deg(10)
   /\ ~qt

(***************************************************************************)
(* Challenge 5: with the mirror within 5 degrees of targetAngle, the first *)
(* evaluation (or one after the mirror moved by more than 2 degrees) takes *)
(* the baseline; a later one finds quiz 2 due once the source moved by     *)
(* more than 10 degrees from it.                                           *)
(***************************************************************************)
inTargetRange(m) == Abs(m - Deg(targetAngle)) <= Deg(5)

baselineNeeded(g, m) ==
   \/ g.c5MirrorAngle = << >>
   \/ Abs(g.c5MirrorAngle[1] - m) > Deg(2)

evaluateChallenge5(g, m, i) ==
   IF inTargetRange(m) /\ baselineNeeded(g, m)
   THEN [g EXCEPT !.c5MirrorAngle = << m >>, !.c5StartAngle = << i >>]
   ELSE g

quiz2Due(g, qt, m, i) ==
   /\ inTargetRange(m)
   /\ ~baselineNeeded(g, m)
   /\ Abs(i - Nullish(g.c5StartAngle, i)) > Deg(10)
   /\ ~qt

(***************************************************************************)
(* handleInteractionEnd as a function of what its closure reads: the game  *)
(* state, quizTriggered, the memoized simulation and the angles it was     *)
(* computed from.  The result is the pair (gameState, quizTriggered) after *)
(* all the setGameState / setQuizTriggered calls of one pass.              *)
(***************************************************************************)
handleInteractionEnd(g, qt, sim, m, i) ==
   IF ~g.started \/ g.challenge = 7              \* !simulation || challenge === 7
   THEN [gameState |-> g, quizTriggered |-> qt]
   ELSE IF g.challenge = 1
   THEN [gameState |-> evaluateChallenge1(g, sim, i), quizTriggered |-> qt]
   ELSE IF g.challenge = 2
   THEN [gameState |-> evaluateChallenge2(g, sim), quizTriggered |-> qt]
   ELSE IF g.challenge = 3
   THEN [gameState |-> evaluateChallenge3(g, sim, m, i),
         quizTriggered |-> qt /\ ~challenge3Passed(sim, m)]
   ELSE IF g.challenge = 4
   THEN [gameState |-> g, quizTriggered |-> qt \/ quiz1Due(g, qt, m, i)]
   ELSE IF g.challenge = 5
   THEN [gameState |-> evaluateChallenge5(g, m, i),
         quizTriggered |-> qt \/ quiz2Due(g, qt, m, i)]
   ELSE [gameState |-> g, quizTriggered |-> qt]

(***************************************************************************)
(* handleQuizAnswer(answerIndex).  The "skip" snapshot has one more        *)
(* branch, the challenge 1 choice (lines 611-630).                         *)
(***************************************************************************)
(***************************************************************************)
(* Variant: quiz 1 accepts every answer.                                   *)
(***************************************************************************)
answerQuiz1Any(g, answerIndex) ==
   [g EXCEPT !.challenge = 5, !.points = g.points + 10]

answerQuiz1(g, answerIndex) ==
   IF answerIndex = 0
   THEN [g EXCEPT !.challenge = 5, !.points = g.points + 10]
   ELSE g

answerChoice(g, answerIndex) ==
   IF answerIndex = 1 THEN [g EXCEPT !.challenge = 2] ELSE g

(***************************************************************************)
(* Variant: quiz 2 accepts every answer but the first.                     *)
(***************************************************************************)
answerQuiz2NotFirst(g, answerIndex) ==
   IF answerIndex >= 1
   THEN [g EXCEPT !.challenge = 7, !.jewels = g.jewels + 1,
                  !.points = g.points + 100]
   ELSE g

(***************************************************************************)
(* Variant: the correct answer to quiz 2 moves to challenge 6, the         *)
(* declared 'Theory Quiz'.                                                 *)
(***************************************************************************)
answerQuiz2ToTheoryQuiz(g, answerIndex) ==
   IF answerIndex = 1
   THEN [g EXCEPT !.challenge = 6, !.jewels = g.jewels + 1,
                  !.points = g.points + 100]
   ELSE g

answerQuiz2(g, answerIndex) ==
   IF answerIndex = 1
   THEN [g EXCEPT !.challenge = 7, !.jewels = g.jewels + 1,
                  !.points = g.points + 100]
   ELSE g

(***************************************************************************)
(* Variant: the branch of quiz 2 is taken from challenge 5 on (>= for      *)
(* ===).                                                                   *)
(***************************************************************************)
handleQuizAnswerFrom5(v, g, answerIndex) ==
   IF g.challenge = 4 THEN answerQuiz1(g, answerIndex)
   ELSE IF v = "skip" /\ g.challenge = 1 THEN answerChoice(g, answerIndex)
   ELSE IF g.challenge >= 5 THEN answerQuiz2(g, answerIndex)
   ELSE g

handleQuizAnswer(v, g, answerIndex) ==
   IF g.challenge = 4 THEN answerQuiz1(g, answerIndex)
   ELSE IF v = "skip" /\ g.challenge = 1 THEN answerChoice(g, answerIndex)
   ELSE IF g.challenge = 5 THEN answerQuiz2(g, answerIndex)
   ELSE g

(***************************************************************************)
(* handleTutorialNext: the updater of its setGameState.                    *)
(***************************************************************************)
(***************************************************************************)
(* Variant: without the test of the challenge.                             *)
(***************************************************************************)
handleTutorialNextAlways(v, g) ==
   IF g.tutorialStep + 1 < TutorialLength[v]
   THEN [g EXCEPT !.tutorialStep = g.tutorialStep + 1]
   ELSE [g EXCEPT !.challenge = 1]

handleTutorialNext(v, g) ==
   IF g.challenge # 0 THEN g
   ELSE IF g.tutorialStep + 1 < TutorialLength[v]
   THEN [g EXCEPT !.tutorialStep = g.tutorialStep + 1]
   ELSE [g EXCEPT !.challenge = 1]

(***************************************************************************)
(* handleSetMirrorAngle / handleSetIncidentAngle / handleSetSourceDist:    *)
(* the value committed by a proposal.                                      *)
(***************************************************************************)
(***************************************************************************)
(* Variant: the mirror angle is committed without checkConstraints.        *)
(***************************************************************************)
handleSetMirrorAngleUnchecked(val, m, i, s, h) == val

handleSetMirrorAngle(val, m, i, s, h) ==
   IF checkConstraints(val, i, s, h) THEN val ELSE m

handleSetIncidentAngle(val, m, i, s, h) ==
   IF checkConstraints(m, val, s, h) THEN val ELSE i

handleSetSourceDist(val, m, i, s, h) ==
   IF checkConstraints(m, i, val, h) THEN val ELSE s

(***************************************************************************)
(* adjustAngle of ControlPanel: the value the +/- button proposes.         *)
(***************************************************************************)
adjustAngle(delta, currentVal) ==
   LET newVal == Deg(MathRound(currentVal + Deg(delta)))
       up     == IF newVal < 0 THEN newVal + Deg(360) ELSE newVal
   IN  IF up >= Deg(360) THEN up - Deg(360) ELSE up

InitState ==
   /\ gameState = initialGameState
   /\ quizTriggered = FALSE
   /\ mirrorAngle = Deg(50)
   /\ incidentAngle = Deg(60)
   /\ sourceDist = 30
   /\ handleRadius = 100
   /\ timers = [pending |-> { }, cleanup |-> << >>]
   /\ last = [op |-> "useState", arg |-> 0, from |-> 1, points |-> 0,
               quizTriggered |-> FALSE]

Init == variant = "main" /\ InitState

InitVariants == variant \in Variants /\ InitState

Did(op, arg) ==
   last' = [op |-> op, arg |-> arg, from |-> gameState.challenge,
            points |-> gameState.points, quizTriggered |-> quizTriggered]

(***************************************************************************)
(* One pass of handleInteractionEnd over the configuration of the last     *)
(* render (the closure the handler was created in).                        *)
(***************************************************************************)
Evaluate ==
   \E sim \in { simulation(mirrorAngle, incidentAngle, sourceDist, handleRadius) } :
      \E r \in { handleInteractionEnd(gameState, quizTriggered, sim,
                                       mirrorAngle, incidentAngle) } :
         /\ gameState' = r.gameState
         /\ quizTriggered' = r.quizTriggered

(***************************************************************************)
(* startGame: the Start button of the dialogue, shown while not started.   *)
(***************************************************************************)
StartGame ==
   /\ ~gameState.started
   /\ gameState' = [gameState EXCEPT !.started = TRUE, !.challenge = 0,
                                      !.tutorialStep = 0]
   /\ mirrorAngle' = Deg(50)
   /\ incidentAngle' = Deg(60)
   /\ Did("startGame", 0)
   /\ UNCHANGED << variant, timers, quizTriggered, sourceDist, handleRadius >>

HandleTutorialNext ==
   /\ gameState.started
   /\ gameState' = handleTutorialNext(variant, gameState)
   /\ Did("handleTutorialNext", 0)
   /\ UNCHANGED << variant, timers, quizTriggered, config >>

(***************************************************************************)
(* Variant: every frame of the mirror drag runs handleInteractionEnd.      *)
(***************************************************************************)
HandlePointerMoveMirrorEvaluating ==
   /\ gameState.started
   /\ \E a \in DragMirrorAngles :
         mirrorAngle' = handleSetMirrorAngle(a, mirrorAngle, incidentAngle,
                                             sourceDist, handleRadius)
   /\ Evaluate
   /\ Did("propose", 0)
   /\ UNCHANGED << variant, timers, incidentAngle, sourceDist, handleRadius >>

(***************************************************************************)
(* OpticalBench: dragging the handle of mirror 2, dragging the source      *)
(* (setSourceDist, then setIncidentAngle, both against the values of the   *)
(* last render), releasing the pointer.                                    *)
(***************************************************************************)
HandlePointerMoveMirror ==
   /\ gameState.started
   /\ \E a \in DragMirrorAngles :
         mirrorAngle' = handleSetMirrorAngle(a, mirrorAngle, incidentAngle,
                                             sourceDist, handleRadius)
   /\ Did("propose", 0)
   /\ UNCHANGED << variant, timers, gameState, quizTriggered, incidentAngle, sourceDist,
                   handleRadius >>

HandlePointerMoveRay ==
   /\ gameState.started
   /\ \E d \in DragSourceDists, a \in DragIncidentAngles :
         /\ sourceDist' = handleSetSourceDist(d, mirrorAngle, incidentAngle,
                                              sourceDist, handleRadius)
         /\ incidentAngle' = handleSetIncidentAngle(a, mirrorAngle, incidentAngle,
                                                    sourceDist, handleRadius)
   /\ Did("propose", 0)
   /\ UNCHANGED << variant, timers, gameState, quizTriggered, mirrorAngle, handleRadius >>

HandlePointerUp ==
   /\ gameState.started
   /\ Evaluate
   /\ Did("onInteractionEnd", 0)
   /\ UNCHANGED << variant, timers, config >>

(***************************************************************************)
(* OpticalBench layout effect: setHandleRadius on mount and on resize.     *)
(***************************************************************************)
SetHandleRadius ==
   /\ gameState.started
   /\ \E r \in HandleRadii : handleRadius' = r
   /\ Did("setHandleRadius", 0)
   /\ UNCHANGED << variant, timers, gameState, quizTriggered, mirrorAngle, incidentAngle,
                   sourceDist >>

(***************************************************************************)
(* ControlPanel: the number inputs (onChange, onBlur) and the +/- buttons  *)
(* (adjustAngle: setVal(newVal), then onInteractionEnd() of the same       *)
(* render, whose closure still holds the configuration before the click).  *)
(***************************************************************************)
NumberInputMirror ==
   /\ gameState.started
   /\ \E v \in NumberMirrorInputs :
         mirrorAngle' = handleSetMirrorAngle(v, mirrorAngle, incidentAngle,
                                             sourceDist, handleRadius)
   /\ Did("propose", 0)
   /\ UNCHANGED << variant, timers, gameState, quizTriggered, incidentAngle, sourceDist,
                   handleRadius >>

NumberInputIncident ==
   /\ gameState.started
   /\ \E v \in NumberIncidentInputs :
         incidentAngle' = handleSetIncidentAngle(v, mirrorAngle, incidentAngle,
                                                 sourceDist, handleRadius)
   /\ Did("propose", 0)
   /\ UNCHANGED << variant, timers, gameState, quizTriggered, mirrorAngle, sourceDist,
                   handleRadius >>

InputBlur ==
   /\ gameState.started
   /\ Evaluate
   /\ Did("onInteractionEnd", 0)
   /\ UNCHANGED << variant, timers, config >>

AdjustMirror ==
   /\ gameState.started
   /\ \E delta \in { -1, 1 } :
         /\ adjustAngle(delta, mirrorAngle) \in ButtonMirrorAngles
         /\ mirrorAngle' = handleSetMirrorAngle(adjustAngle(delta, mirrorAngle),
                               mirrorAngle, incidentAngle, sourceDist, handleRadius)
   /\ Evaluate
   /\ Did("adjustAngle", 0)
   /\ UNCHANGED << variant, timers, incidentAngle, sourceDist, handleRadius >>

AdjustIncident ==
   /\ gameState.started
   /\ \E delta \in { -1, 1 } :
         /\ adjustAngle(delta, incidentAngle) \in ButtonIncidentAngles
         /\ incidentAngle' = handleSetIncidentAngle(adjustAngle(delta, incidentAngle),
                                 mirrorAngle, incidentAngle, sourceDist, handleRadius)
   /\ Evaluate
   /\ Did("adjustAngle", 0)
   /\ UNCHANGED << variant, timers, mirrorAngle, sourceDist, handleRadius >>

(***************************************************************************)
(* Variant: handleQuizAnswer without setQuizTriggered(false).              *)
(***************************************************************************)
HandleQuizAnswerKeepingQuiz ==
   /\ gameState.started
   /\ \E answerIndex \in AnswerIndexes :
         /\ gameState' = handleQuizAnswer(variant, gameState, answerIndex)
         /\ Did("handleQuizAnswer", answerIndex)
   /\ UNCHANGED << variant, timers, quizTriggered, config >>

(***************************************************************************)
(* handleQuizAnswer(answerIndex): setQuizTriggered(false), then the branch *)
(* of the current challenge.                                               *)
(***************************************************************************)
HandleQuizAnswer ==
   /\ gameState.started
   /\ \E answerIndex \in AnswerIndexes :
         /\ gameState' = handleQuizAnswer(variant, gameState, answerIndex)
         /\ Did("handleQuizAnswer", answerIndex)
   /\ quizTriggered' = FALSE
   /\ UNCHANGED << variant, timers, config >>

(***************************************************************************)
(* resetGame: the Play Again button, rendered while challenge = 7.         *)
(***************************************************************************)
ResetGame ==
   /\ gameState.started
   /\ gameState.challenge = 7
   /\ mirrorAngle' = Deg(130)
   /\ incidentAngle' = Deg(60)
   /\ gameState' = initialGameState
   /\ quizTriggered' = FALSE
   /\ Did("resetGame", 0)
   /\ UNCHANGED << variant, timers, sourceDist, handleRadius >>

(***************************************************************************)
(* "Skip to Challenge 2" of the "skip" snapshot (lines 771-781), rendered  *)
(* in challenge 1 once one of the two methods is found.                    *)
(***************************************************************************)
SkipToChallenge2 ==
   /\ variant = "skip"
   /\ gameState.started
   /\ gameState.challenge = 1
   /\ gameState.c1Progress.methodA \/ gameState.c1Progress.methodB
   /\ gameState' = [gameState EXCEPT !.challenge = 2]
   /\ Did("skipToChallenge2", 0)
   /\ UNCHANGED << variant, timers, quizTriggered, config >>

(***************************************************************************)
(* The "slider" snapshot of ControlPanel (lines 282-449): range sliders    *)
(* (onChange proposes, onMouseUp and onTouchEnd are both onInteractionEnd) *)
(* next to the number inputs, and no +/- buttons.  SliderRelease is one    *)
(* release of a slider by the user: each handler it runs is a pass of      *)
(* handleInteractionEnd, the second one in the render after the first.     *)
(***************************************************************************)
SliderMirror ==
   /\ gameState.started
   /\ \E v \in SliderMirrorAngles :
         mirrorAngle' = handleSetMirrorAngle(v, mirrorAngle, incidentAngle,
                                             sourceDist, handleRadius)
   /\ Did("propose", 0)
   /\ UNCHANGED << variant, timers, gameState, quizTriggered, incidentAngle, sourceDist,
                   handleRadius >>

SliderIncident ==
   /\ gameState.started
   /\ \E v \in SliderIncidentAngles :
         incidentAngle' = handleSetIncidentAngle(v, mirrorAngle, incidentAngle,
                                                 sourceDist, handleRadius)
   /\ Did("propose", 0)
   /\ UNCHANGED << variant, timers, gameState, quizTriggered, mirrorAngle, sourceDist,
                   handleRadius >>

SliderRelease ==
   /\ gameState.started
   /\ \E sim \in { simulation(mirrorAngle, incidentAngle, sourceDist, handleRadius) } :
      \E once \in { handleInteractionEnd(gameState, quizTriggered, sim,
                                          mirrorAngle, incidentAngle) } :
      \E handlers \in ReleaseHandlers :
      \E r \in { IF handlers = 1 THEN once
                 ELSE handleInteractionEnd(once.gameState, once.quizTriggered,
                                           sim, mirrorAngle, incidentAngle) } :
         /\ gameState' = r.gameState
         /\ quizTriggered' = r.quizTriggered
         /\ Did("sliderRelease", handlers)
   /\ UNCHANGED << variant, timers, config >>

(***************************************************************************)
(* The three setters as App hands them to OpticalBench and ControlPanel    *)
(* (setMirrorAngle={handleSetMirrorAngle} and so on), called one at a      *)
(* time with any value a child proposes; last.arg keeps the proposal.      *)
(***************************************************************************)
MirrorProposals ==
   DragMirrorAngles \cup NumberMirrorInputs \cup ButtonMirrorAngles
      \cup SliderMirrorAngles

IncidentProposals ==
   DragIncidentAngles \cup NumberIncidentInputs \cup ButtonIncidentAngles
      \cup SliderIncidentAngles

SetMirrorAngle ==
   /\ gameState.started
   /\ \E val \in MirrorProposals :
         /\ mirrorAngle' = handleSetMirrorAngle(val, mirrorAngle, incidentAngle,
                                                sourceDist, handleRadius)
         /\ Did("setMirrorAngle", val)
   /\ UNCHANGED << variant, timers, gameState, quizTriggered, incidentAngle, sourceDist,
                   handleRadius >>

SetIncidentAngle ==
   /\ gameState.started
   /\ \E val \in IncidentProposals :
         /\ incidentAngle' = handleSetIncidentAngle(val, mirrorAngle, incidentAngle,
                                                    sourceDist, handleRadius)
         /\ Did("setIncidentAngle", val)
   /\ UNCHANGED << variant, timers, gameState, quizTriggered, mirrorAngle, sourceDist,
                   handleRadius >>

SetSourceDist ==
   /\ gameState.started
   /\ \E val \in DragSourceDists :
         /\ sourceDist' = handleSetSourceDist(val, mirrorAngle, incidentAngle,
                                              sourceDist, handleRadius)
         /\ Did("setSourceDist", val)
   /\ UNCHANGED << variant, timers, gameState, quizTriggered, mirrorAngle, incidentAngle,
                   handleRadius >>

Next ==
   \/ StartGame
   \/ HandleTutorialNext
   \/ HandlePointerMoveMirror
   \/ HandlePointerMoveRay
   \/ HandlePointerUp
   \/ SetHandleRadius
   \/ NumberInputMirror
   \/ NumberInputIncident
   \/ InputBlur
   \/ AdjustMirror
   \/ AdjustIncident
   \/ HandleQuizAnswer
   \/ ResetGame

NextVariants == Next \/ SkipToChallenge2

Spec == Init /\ [][Next]_vars

SpecVariants == InitVariants /\ [][NextVariants]_vars

NextSlider ==
   \/ StartGame
   \/ HandleTutorialNext
   \/ HandlePointerMoveMirror
   \/ HandlePointerMoveRay
   \/ HandlePointerUp
   \/ SetHandleRadius
   \/ SliderMirror
   \/ SliderIncident
   \/ SliderRelease
   \/ NumberInputMirror
   \/ NumberInputIncident
   \/ InputBlur
   \/ HandleQuizAnswer
   \/ ResetGame

SpecSlider == Init /\ [][NextSlider]_vars

(***************************************************************************)
(* The setters alone, with the layout effect that changes handleRadius     *)
(* under them.                                                             *)
(***************************************************************************)
NextSetters ==
   \/ StartGame
   \/ SetMirrorAngle
   \/ SetIncidentAngle
   \/ SetSourceDist
   \/ SetHandleRadius

SpecSetters == Init /\ [][NextSetters]_vars

(***************************************************************************)
(* The ray tracer alone.  TracerInit draws a configuration, also one that  *)
(* the constraint checker would refuse (the tracer takes any), with the    *)
(* small mirror angles that exhaust maxBounces and the coincident mirrors  *)
(* of mirror angle 0; CalculateRayPath traces it as simulation does and    *)
(* keeps the result in last.arg.                                           *)
(***************************************************************************)
TracerMirrorAngles ==
   { 0, Deg(5), Deg(8), Deg(10), Deg(30), Deg(50), Deg(60), Deg(90), Deg(110),
     Deg(130) }

TracerIncidentAngles ==
   { Deg(3), Deg(5), Deg(30), Deg(60), Deg(100), Deg(135), Deg(240) }

TracerSourceDists == { 30, 200, 400 }

TracerInit ==
   /\ variant = "main"
   /\ gameState = [initialGameState EXCEPT !.started = TRUE]
   /\ quizTriggered = FALSE
   /\ mirrorAngle \in TracerMirrorAngles
   /\ incidentAngle \in TracerIncidentAngles
   /\ sourceDist \in TracerSourceDists
   /\ handleRadius \in HandleRadii
   /\ timers = [pending |-> { }, cleanup |-> << >>]
   /\ last = [op |-> "useState", arg |-> 0, from |-> 1, points |-> 0,
               quizTriggered |-> FALSE]

CalculateRayPath ==
   /\ last.op = "useState"
   /\ \E path \in { calculateRayPath(sourcePos(incidentAngle, sourceDist, handleRadius),
                                     incidentAngle + Deg(180),
                                     << 0, mirrorAngle >>) } :
         Did("calculateRayPath", path)
   /\ UNCHANGED << variant, timers, gameState, quizTriggered, config >>

(***************************************************************************)
(* reflectVector applied twice to the direction of the incident ray, with  *)
(* the normal of mirror 2.                                                 *)
(***************************************************************************)
ReflectVector ==
   /\ last.op = "useState"
   /\ \E v \in { unitVector(incidentAngle + Deg(180)) } :
      \E n \in { unitVector(mirrorAngle + Deg(90)) } :
      \E once \in { reflectVectorXY(v, n) } :
         Did("reflectVector",
             [v |-> v, n |-> n, once |-> once, twice |-> reflectVectorXY(once, n)])
   /\ UNCHANGED << variant, timers, gameState, quizTriggered, config >>

NextTracer ==
   \/ CalculateRayPath
   \/ ReflectVector

SpecTracer == TracerInit /\ [][NextTracer]_vars

(***************************************************************************)
(* The debounced variant (App with "Effect 2: Game Logic Check             *)
(* (Debounced)"): the challenges are evaluated by a 500 ms timer that an   *)
(* effect sets after each render in which one of its dependencies          *)
(* changed, and that the effect's cleanup clears before the next run.      *)
(* The setters are App's useState setters, unconstrained; the simulation   *)
(* has handleRadius 100 and sourceDist 30.                                 *)
(***************************************************************************)
DebouncedMirrorAngles == { Deg(50), Deg(90), Deg(110), Deg(130) }

DebouncedIncidentAngles == { Deg(60), Deg(100), Deg(135) }

(***************************************************************************)
(* The values the timer's callback closes over.                            *)
(***************************************************************************)
timerOf(m, i, gs) ==
   [mirrorAngle |-> m, incidentAngle |-> i, challenge |-> gs.challenge,
    c1Progress |-> gs.c1Progress]

(***************************************************************************)
(* Variant: the effect returns no cleanup, so no timer is ever cleared.    *)
(***************************************************************************)
useEffectLogicCheckNoCleanup(tm, m, i, gs) ==
   IF ~gs.started \/ gs.challenge = 4
   THEN [pending |-> tm.pending, cleanup |-> << >>]
   ELSE [pending |-> tm.pending \cup { timerOf(m, i, gs) }, cleanup |-> << >>]

(***************************************************************************)
(* One run of the effect for the render of (m, i, gs): the cleanup of the  *)
(* previous run (clearTimeout), then the body: return without a timer      *)
(* when simulation is null or the challenge is 4, else setTimeout and      *)
(* return the cleanup for it.                                              *)
(***************************************************************************)
useEffectLogicCheck(tm, m, i, gs) ==
   LET cleared == tm.pending \ { tm.cleanup[k] : k \in 1 .. Len(tm.cleanup) }
   IN  IF ~gs.started \/ gs.challenge = 4
       THEN [pending |-> cleared, cleanup |-> << >>]
       ELSE [pending |-> cleared \cup { timerOf(m, i, gs) },
             cleanup |-> << timerOf(m, i, gs) >>]

(***************************************************************************)
(* The effect's dependencies differ between two renders: simulation (a     *)
(* new object when useMemo's dependencies mirrorAngle, incidentAngle,      *)
(* started changed, null while the game is not started),                   *)
(* gameState.challenge, gameState.c1Progress, incidentAngle.               *)
(***************************************************************************)
depsChanged(m, i, gs, m2, i2, gs2) ==
   \/ /\ gs.started \/ gs2.started
      /\ m # m2 \/ i # i2 \/ gs.started # gs2.started
   \/ gs.challenge # gs2.challenge
   \/ gs.c1Progress # gs2.c1Progress
   \/ i # i2

(***************************************************************************)
(* The timers after the render that follows a state change.                *)
(***************************************************************************)
render(tm, m, i, gs, m2, i2, gs2) ==
   IF depsChanged(m, i, gs, m2, i2, gs2) THEN useEffectLogicCheck(tm, m2, i2, gs2)
   ELSE tm

(***************************************************************************)
(* The timer's callback: the evaluation of the challenge the callback      *)
(* closed over, on the simulation and the angles it closed over; prev is   *)
(* the gameState the functional updates receive.                           *)
(***************************************************************************)
logicCheckTimeout(t, prev) ==
   LET sim == simulation(t.mirrorAngle, t.incidentAngle, 30, 100)
       progress ==
          [methodA |-> t.c1Progress.methodA \/ t.incidentAngle > Deg(90),
           methodB |-> t.c1Progress.methodB \/ t.incidentAngle <= Deg(90)]
   IN  IF t.challenge = 1
       THEN IF sim.reflectionCount = 1 /\ progress # t.c1Progress
            THEN IF progress.methodA /\ progress.methodB
                 THEN [prev EXCEPT !.challenge = 2, !.jewels = @ + 1,
                                   !.c1Progress = progress]
                 ELSE [prev EXCEPT !.c1Progress = progress]
            ELSE prev
       ELSE IF t.challenge = 2
       THEN IF sim.reflectionCount = 2
            THEN [prev EXCEPT !.challenge = 3, !.jewels = @ + 1]
            ELSE prev
       ELSE IF t.challenge = 3
       THEN IF sim.reflectionCount >= 2 /\ finalDot(sim) < -9900
            THEN [prev EXCEPT !.challenge = 4, !.jewels = @ + 1]
            ELSE prev
       ELSE prev

DebouncedInit == variant = "debounced" /\ InitState

DebouncedStartGame ==
   /\ ~gameState.started
   /\ gameState' = [gameState EXCEPT !.started = TRUE]
   /\ timers' = render(timers, mirrorAngle, incidentAngle, gameState,
                       mirrorAngle, incidentAngle, gameState')
   /\ Did("startGame", 0)
   /\ UNCHANGED << variant, quizTriggered, config >>

(***************************************************************************)
(* setMirrorAngle(val) / setIncidentAngle(val) from OpticalBench or        *)
(* ControlPanel.  Setting the value a cell already has renders nothing.    *)
(***************************************************************************)
DebouncedSetMirrorAngle ==
   \E val \in DebouncedMirrorAngles \ { mirrorAngle } :
      /\ mirrorAngle' = val
      /\ timers' = render(timers, mirrorAngle, incidentAngle, gameState,
                          val, incidentAngle, gameState)
      /\ Did("setMirrorAngle", val)
      /\ UNCHANGED << variant, gameState, quizTriggered, incidentAngle, sourceDist,
                      handleRadius >>

DebouncedSetIncidentAngle ==
   \E val \in DebouncedIncidentAngles \ { incidentAngle } :
      /\ incidentAngle' = val
      /\ timers' = render(timers, mirrorAngle, incidentAngle, gameState,
                          mirrorAngle, val, gameState)
      /\ Did("setIncidentAngle", val)
      /\ UNCHANGED << variant, gameState, quizTriggered, mirrorAngle, sourceDist,
                      handleRadius >>

(***************************************************************************)
(* 500 ms after setTimeout a pending timer fires: its callback runs and    *)
(* the state it sets is rendered.                                          *)
(***************************************************************************)
Timeout ==
   \E t \in timers.pending :
      /\ gameState' = logicCheckTimeout(t, gameState)
      /\ timers' = render([timers EXCEPT !.pending = @ \ { t }],
                          mirrorAngle, incidentAngle, gameState,
                          mirrorAngle, incidentAngle, gameState')
      /\ Did("setTimeout", t)
      /\ UNCHANGED << variant, quizTriggered, config >>

(***************************************************************************)
(* resetGame, the Restart button of the completion banner (challenge 4).   *)
(***************************************************************************)
DebouncedResetGame ==
   /\ gameState.started
   /\ gameState.challenge = 4
   /\ mirrorAngle' = Deg(130)
   /\ incidentAngle' = Deg(60)
   /\ gameState' = initialGameState
   /\ timers' = render(timers, mirrorAngle, incidentAngle, gameState,
                       Deg(130), Deg(60), gameState')
   /\ Did("resetGame", 0)
   /\ UNCHANGED << variant, quizTriggered, sourceDist, handleRadius >>

NextDebounced ==
   \/ DebouncedStartGame
   \/ DebouncedSetMirrorAngle
   \/ DebouncedSetIncidentAngle
   \/ Timeout
   \/ DebouncedResetGame

SpecDebounced == DebouncedInit /\ [][NextDebounced]_vars

(***************************************************************************)
(* Properties.                                                             *)
(*                                                                         *)
(* Evaluated: the step ran handleInteractionEnd.  It ran on the            *)
(* configuration of the state the step leaves, memo being the simulation   *)
(* memoized for that state.                                                *)
(***************************************************************************)
Evaluated == last'.op \in { "onInteractionEnd", "adjustAngle" }

memo == simulation(mirrorAngle, incidentAngle, sourceDist, handleRadius)

methodA == gameState.c1Progress.methodA

methodB == gameState.c1Progress.methodB

(***************************************************************************)
(* C1, as amended: the challenge id never decreases except by resetGame    *)
(* and by startGame, which sets it to 0 (below the 1 of the initial        *)
(* state).                                                                 *)
(***************************************************************************)
C1_ChallengeNeverDecreases ==
   [][ /\ (last'.op \notin { "resetGame", "startGame" }
            => gameState'.challenge >= gameState.challenge)
       /\ (last'.op = "startGame" => gameState'.challenge = 0) ]_vars

C1_Witness ==
   /\ last.op = "handleTutorialNext"
   /\ last.from = 0
   /\ gameState.challenge = 1

(***************************************************************************)
(* C1 as stated: no operation but resetGame lowers the challenge id.       *)
(***************************************************************************)
C1_OnlyResetLowers ==
   [][ last'.op # "resetGame"
        => gameState'.challenge >= gameState.challenge ]_vars

(***************************************************************************)
(* C2: in challenge 7 every operation but resetGame leaves the game state  *)
(* (challenge, points, jewels, progress, snapshots) as it is.              *)
(***************************************************************************)
C2_TerminalIsAbsorbing ==
   [][ gameState.challenge = 7 /\ last'.op # "resetGame"
        => gameState' = gameState ]_vars

C2_Witness ==
   /\ last.op = "handleQuizAnswer"
   /\ last.arg = 1
   /\ last.from = 7
   /\ gameState.jewels = 1

(***************************************************************************)
(* C3, as amended: an evaluation moves from challenge 1 to 2 only with     *)
(* both methods discovered, and in the snapshot without "Skip to           *)
(* Challenge 2" and without the challenge 1 choice no state has            *)
(* challenge >= 2 with a method undiscovered.                              *)
(***************************************************************************)
C3_EvaluationNeedsBothMethods ==
   /\ [](variant = "main" /\ gameState.challenge >= 2 => methodA /\ methodB)
   /\ [][ Evaluated /\ gameState.challenge = 1 /\ gameState'.challenge = 2
           => gameState'.c1Progress.methodA /\ gameState'.c1Progress.methodB ]_vars

C3_Witness ==
   /\ variant = "main"
   /\ last.op = "onInteractionEnd"
   /\ last.from = 1
   /\ gameState.challenge = 2
   /\ methodA /\ methodB

(***************************************************************************)
(* C3 as stated: no state has challenge >= 2 with a method undiscovered.   *)
(***************************************************************************)
C3_NoLaterStateLacksAMethod ==
   gameState.challenge >= 2 => methodA /\ methodB

(***************************************************************************)
(* C4: a discovered method stays discovered until resetGame.               *)
(***************************************************************************)
C4_MethodsStayDiscovered ==
   [][ last'.op # "resetGame"
        => /\ (methodA => gameState'.c1Progress.methodA)
           /\ (methodB => gameState'.c1Progress.methodB) ]_vars

C4_Witness ==
   /\ last.op = "onInteractionEnd"
   /\ last.from = 1
   /\ last.points = 10
   /\ gameState.challenge = 2
   /\ methodA /\ methodB

(***************************************************************************)
(* C5: in challenge 1 an evaluation that meets only a method already       *)
(* discovered changes nothing, and challenge 1 awards at most 20 points    *)
(* (10 for each method discovered).                                        *)
(***************************************************************************)
C5_RepeatedMethodChangesNothing ==
   /\ [][ /\ Evaluated
           /\ gameState.challenge = 1
           /\ memo.reflectionCount = 1
           /\ \/ incidentAngle > Deg(90) /\ methodA
              \/ incidentAngle <= Deg(90) /\ methodB
           => gameState' = gameState /\ quizTriggered' = quizTriggered ]_vars
   /\ [](gameState.challenge = 1
           => gameState.points = (IF methodA THEN 10 ELSE 0)
                                 + (IF methodB THEN 10 ELSE 0))
   /\ [](gameState.challenge <= 2 => gameState.points <= 20)

C5_Witness ==
   /\ last.op = "onInteractionEnd"
   /\ last.from = 1
   /\ last.points = 10
   /\ gameState.challenge = 1
   /\ gameState.points = 10
   /\ methodA
   /\ memo.reflectionCount = 1
   /\ incidentAngle > Deg(90)

(***************************************************************************)
(* C6: in challenge 1 an evaluation discovers method A iff the path has    *)
(* one reflection and incidentAngle > 90, method B iff it has one          *)
(* reflection and incidentAngle <= 90, nothing with another count, and     *)
(* never both at once.                                                     *)
(***************************************************************************)
C6_MethodDiscovery ==
   [][ Evaluated /\ gameState.challenge = 1
        => /\ gameState'.c1Progress.methodA
                 <=> (methodA \/ (memo.reflectionCount = 1
                                    /\ incidentAngle > Deg(90)))
           /\ gameState'.c1Progress.methodB
                 <=> (methodB \/ (memo.reflectionCount = 1
                                    /\ incidentAngle <= Deg(90)))
           /\ ~ (/\ gameState'.c1Progress.methodA /\ ~methodA
                 /\ gameState'.c1Progress.methodB /\ ~methodB) ]_vars

C6_Witness ==
   /\ last.op = "onInteractionEnd"
   /\ last.from = 1
   /\ last.points = 0
   /\ gameState.challenge = 1
   /\ methodB /\ ~methodA
   /\ memo.reflectionCount = 1
   /\ incidentAngle <= Deg(90)

(***************************************************************************)
(* C7: in challenge 2 an evaluation moves to challenge 3, adding exactly   *)
(* 10 points, iff the path has exactly 2 reflections; with any other count *)
(* the game state is unchanged.                                            *)
(***************************************************************************)
C7_TwoReflectionsAdvance ==
   [][ Evaluated /\ gameState.challenge = 2
        => gameState' = IF memo.reflectionCount = 2
                        THEN [gameState EXCEPT !.challenge = 3,
                                               !.points = gameState.points + 10]
                        ELSE gameState ]_vars

C7_Witness ==
   /\ last.op = "onInteractionEnd"
   /\ last.from = 2
   /\ gameState.challenge = 3
   /\ gameState.points = last.points + 10
   /\ memo.reflectionCount = 2

(***************************************************************************)
(* C8: in challenge 3 an evaluation moves to challenge 4 only with exactly *)
(* 2 reflections, final direction against the initial one (dot < -0.99)    *)
(* and a mirror angle that rounds to 90; it then stores the incident angle *)
(* it ran with as c4StartAngle and clears the pending quiz.  Otherwise the *)
(* game state is unchanged.                                                *)
(***************************************************************************)
C8_RetroReflectionAdvance ==
   [][ Evaluated /\ gameState.challenge = 3
        => IF /\ memo.reflectionCount = 2
              /\ finalDot(memo) < -9900
              /\ MathRound(mirrorAngle) = 90
           THEN /\ gameState' = [gameState EXCEPT
                                    !.challenge = 4,
                                    !.c4StartAngle = << incidentAngle >>,
                                    !.points = gameState.points + 10]
                /\ quizTriggered' = FALSE
           ELSE gameState' = gameState ]_vars

C8_Witness ==
   /\ last.op = "onInteractionEnd"
   /\ last.from = 3
   /\ gameState.challenge = 4
   /\ gameState.c4StartAngle = << incidentAngle >>
   /\ mirrorAngle = Deg(90) - 1
   /\ ~quizTriggered

(***************************************************************************)
(* C9: in challenge 4 an evaluation makes quiz 1 pending iff the mirror    *)
(* angle rounds to 90, the incident angle is more than 10 degrees from     *)
(* c4StartAngle and no quiz is pending; with a quiz pending an evaluation  *)
(* changes nothing.                                                        *)
(***************************************************************************)
C9_Quiz1Trigger ==
   /\ [](gameState.challenge = 4 => gameState.c4StartAngle # << >>)
   /\ [][ Evaluated /\ gameState.challenge = 4
           => /\ gameState' = gameState
              /\ (quizTriggered' /\ ~quizTriggered)
                    <=> /\ MathRound(mirrorAngle) = 90
                        /\ Abs(incidentAngle - gameState.c4StartAngle[1]) > Deg(10)
                        /\ ~quizTriggered
              /\ (quizTriggered => quizTriggered') ]_vars

C9_Witness ==
   /\ last.op = "onInteractionEnd"
   /\ last.from = 4
   /\ last.quizTriggered
   /\ quizTriggered
   /\ gameState.challenge = 4
   /\ MathRound(mirrorAngle) = 90
   /\ Abs(incidentAngle - gameState.c4StartAngle[1]) > Deg(10)

(***************************************************************************)
(* C10: answering the pending quiz 1 (challenge 4) with index 0 moves to   *)
(* challenge 5 and adds exactly 10 points; any other index leaves the game *)
(* state unchanged; either way no quiz is pending afterwards.              *)
(***************************************************************************)
C10_Quiz1Answer ==
   [][ last'.op = "handleQuizAnswer" /\ gameState.challenge = 4 /\ quizTriggered
        => /\ ~quizTriggered'
           /\ gameState' = IF last'.arg = 0
                           THEN [gameState EXCEPT !.challenge = 5,
                                                  !.points = gameState.points + 10]
                           ELSE gameState ]_vars

C10_Witness ==
   /\ last.op = "handleQuizAnswer"
   /\ last.arg = 0
   /\ last.from = 4
   /\ last.quizTriggered
   /\ ~quizTriggered
   /\ gameState.challenge = 5
   /\ gameState.points = last.points + 10

(***************************************************************************)
(* C11: answering quiz 2 (challenge 5) with index 1 moves to challenge 7   *)
(* and adds exactly 1 jewel and 100 points, any other index leaves the     *)
(* game state unchanged; from challenge 7 on no step but resetGame changes *)
(* challenge, points or jewels, and no game ever holds a second jewel.     *)
(***************************************************************************)
C11_Quiz2Answer ==
   /\ [](gameState.jewels <= 1)
   /\ [][ /\ last'.op = "handleQuizAnswer" /\ gameState.challenge = 5
             => gameState' = IF last'.arg = 1
                             THEN [gameState EXCEPT !.challenge = 7,
                                      !.jewels = gameState.jewels + 1,
                                      !.points = gameState.points + 100]
                             ELSE gameState
          /\ gameState.challenge = 7 /\ last'.op # "resetGame"
             => /\ gameState'.challenge = 7
                /\ gameState'.jewels = gameState.jewels
                /\ gameState'.points = gameState.points ]_vars

C11_Witness ==
   /\ last.op = "handleQuizAnswer"
   /\ last.arg = 1
   /\ last.from = 7
   /\ gameState.challenge = 7
   /\ gameState.jewels = 1
   /\ gameState.points = last.points
   /\ gameState.points >= 100

(***************************************************************************)
(* C12: handleQuizAnswer invoked while no quiz is pending (quizTriggered   *)
(* false) leaves challenge, points and jewels unchanged, whatever the      *)
(* answer index and the challenge.                                         *)
(***************************************************************************)
C12_AnswerNeedsPendingQuiz ==
   [][ last'.op = "handleQuizAnswer" /\ ~quizTriggered
        => /\ gameState'.challenge = gameState.challenge
           /\ gameState'.points = gameState.points
           /\ gameState'.jewels = gameState.jewels ]_vars

C12_Witness ==
   /\ last.op = "handleQuizAnswer"
   /\ ~last.quizTriggered
   /\ last.from = 5
   /\ gameState.challenge = 7
   /\ gameState.jewels = 1
   /\ gameState.c5StartAngle = << >>

(***************************************************************************)
(* C13: a proposal of a mirror angle, an incident angle or a source        *)
(* distance, accepted or rejected, leaves the whole gameState record       *)
(* (challenge, tutorialStep, points, jewels, c1Progress, the three         *)
(* snapshots) and quizTriggered unchanged.                                 *)
(***************************************************************************)
C13_ProposalsKeepChallengeState ==
   [][ last'.op = "propose"
        => gameState' = gameState /\ quizTriggered' = quizTriggered ]_vars

C13_Witness ==
   /\ last.op = "propose"
   /\ last.from = 3
   /\ gameState.challenge = 3
   /\ challenge3Passed(memo, mirrorAngle)

(***************************************************************************)
(* C14: every completed interaction (a pointer release, a slider release   *)
(* by mouse or touch, a +/- click, an input blur) runs exactly one pass of *)
(* handleInteractionEnd: the game state and quizTriggered it leaves are    *)
(* those of one pass over the state it found.                              *)
(***************************************************************************)
C14_OneEvaluationPerInteraction ==
   [][ last'.op \in { "onInteractionEnd", "adjustAngle", "sliderRelease" }
        => \E once \in { handleInteractionEnd(gameState, quizTriggered, memo,
                                              mirrorAngle, incidentAngle) } :
              /\ gameState' = once.gameState
              /\ quizTriggered' = once.quizTriggered ]_vars

C14_Witness ==
   /\ last.op = "sliderRelease"
   /\ last.arg = 2
   /\ last.from = 2
   /\ gameState.challenge = 4

(***************************************************************************)
(* C15: every pass of handleInteractionEnd works on the configuration as   *)
(* the interaction that triggered it leaves it: a +/- click that changes   *)
(* an angle is evaluated on the new angle.                                 *)
(***************************************************************************)
C15_EvaluationSeesCommittedAngles ==
   [][ Evaluated
        => \E sim \in { simulation(mirrorAngle', incidentAngle', sourceDist',
                                   handleRadius') } :
           \E r \in { handleInteractionEnd(gameState, quizTriggered, sim,
                                           mirrorAngle', incidentAngle') } :
              /\ gameState' = r.gameState
              /\ quizTriggered' = r.quizTriggered ]_vars

C15_Witness ==
   /\ last.op = "adjustAngle"
   /\ last.from = 3
   /\ gameState.challenge = 3
   /\ mirrorAngle = Deg(90)
   /\ challenge3Passed(memo, mirrorAngle)

(***************************************************************************)
(* C16: a proposal that fails checkConstraints leaves mirrorAngle,         *)
(* incidentAngle and sourceDist as they were; a proposal that passes       *)
(* commits the proposed value and leaves the other two as they were.       *)
(***************************************************************************)
C16_ProposalCommitsOrKeeps ==
   [][ /\ last'.op = "setMirrorAngle"
          => IF checkConstraints(last'.arg, incidentAngle, sourceDist, handleRadius)
             THEN /\ mirrorAngle' = last'.arg
                  /\ incidentAngle' = incidentAngle /\ sourceDist' = sourceDist
             ELSE config' = config
       /\ last'.op = "setIncidentAngle"
          => IF checkConstraints(mirrorAngle, last'.arg, sourceDist, handleRadius)
             THEN /\ incidentAngle' = last'.arg
                  /\ mirrorAngle' = mirrorAngle /\ sourceDist' = sourceDist
             ELSE config' = config
       /\ last'.op = "setSourceDist"
          => IF checkConstraints(mirrorAngle, incidentAngle, last'.arg, handleRadius)
             THEN /\ sourceDist' = last'.arg
                  /\ mirrorAngle' = mirrorAngle /\ incidentAngle' = incidentAngle
             ELSE config' = config ]_vars

C16_Witness ==
   /\ last.op = "setMirrorAngle"
   /\ ~checkConstraints(last.arg, incidentAngle, sourceDist, handleRadius)
   /\ mirrorAngle # last.arg
   /\ checkConstraints(mirrorAngle, incidentAngle, sourceDist, handleRadius)

(***************************************************************************)
(* C17: a proposal made in a configuration that satisfies checkConstraints *)
(* leaves a configuration that satisfies checkConstraints, the drag of the *)
(* source, which proposes a distance and an incident angle in one move,    *)
(* included.                                                               *)
(***************************************************************************)
C17_ProposalsKeepConstraints ==
   [][ /\ last'.op = "propose"
       /\ checkConstraints(mirrorAngle, incidentAngle, sourceDist, handleRadius)
       => checkConstraints(mirrorAngle', incidentAngle', sourceDist',
                           handleRadius') ]_vars

C17_Witness ==
   /\ last.op = "propose"
   /\ handleRadius = 140
   /\ ~checkConstraints(mirrorAngle, incidentAngle, sourceDist, handleRadius)
   /\ checkConstraints(mirrorAngle, Deg(60), sourceDist, handleRadius)
   /\ checkConstraints(mirrorAngle, incidentAngle, 30, handleRadius)

(***************************************************************************)
(* C18: startGame (also after a resetGame, with the source distance left   *)
(* by the game before) and every change of handleRadius lead from a        *)
(* configuration that satisfies checkConstraints to one that satisfies it: *)
(* in a started game the source is never behind mirror 2 nor below         *)
(* mirror 1.                                                               *)
(***************************************************************************)
C18_StartAndResizeKeepConstraints ==
   [][ /\ last'.op \in { "startGame", "setHandleRadius" }
       /\ checkConstraints(mirrorAngle, incidentAngle, sourceDist, handleRadius)
       => checkConstraints(mirrorAngle', incidentAngle', sourceDist',
                           handleRadius') ]_vars

C18_Witness ==
   /\ last.op = "startGame"
   /\ gameState.started
   /\ sourceDist = 200
   /\ handleRadius = 100
   /\ ~checkConstraints(mirrorAngle, incidentAngle, sourceDist, handleRadius)

(***************************************************************************)
(* C19: in every reachable state the committed mirror angle and incident   *)
(* angle lie in [0, 360).                                                  *)
(***************************************************************************)
C19_AnglesInRange ==
   /\ 0 <= mirrorAngle /\ mirrorAngle < Deg(360)
   /\ 0 <= incidentAngle /\ incidentAngle < Deg(360)

C19_Witness ==
   /\ last.op = "propose"
   /\ mirrorAngle = Deg(450)
   /\ checkConstraints(mirrorAngle, incidentAngle, sourceDist, handleRadius)

(***************************************************************************)
(* C20: resetGame restores the initial gameState (challenge 1, no points,  *)
(* no jewels, no method found, no snapshot), leaves no quiz pending, and   *)
(* restores mirror angle, incident angle and source distance to constants: *)
(* 130 and 60 for the angles, the initial 30 for the distance.             *)
(***************************************************************************)
C20_ResetRestoresConstants ==
   [][ last'.op = "resetGame"
        => /\ gameState' = initialGameState
           /\ ~quizTriggered'
           /\ mirrorAngle' = Deg(130)
           /\ incidentAngle' = Deg(60)
           /\ sourceDist' = 30 ]_vars

C20_Witness ==
   /\ last.op = "resetGame"
   /\ gameState = initialGameState
   /\ ~quizTriggered
   /\ mirrorAngle = Deg(130)
   /\ incidentAngle = Deg(60)
   /\ sourceDist = 200

(***************************************************************************)
(* C21: for every traced path, one cut off by the bounce limit included,   *)
(* the reflection count of the simulation, max(0, path.length - 2), is the *)
(* number of mirror hits the tracer performed (and is not negative).       *)
(***************************************************************************)
C21_CountIsNumberOfHits ==
   last.op = "calculateRayPath"
      => /\ Max(0, last.arg.pathLength - 2) = Len(last.arg.hits)
         /\ Max(0, last.arg.pathLength - 2) >= 0

C21_Witness ==
   /\ last.op = "calculateRayPath"
   /\ ~last.arg.escaped
   /\ Len(last.arg.hits) = maxBounces
   /\ last.arg.pathLength = maxBounces + 1
   /\ checkConstraints(mirrorAngle, incidentAngle, sourceDist, handleRadius)

C23_CoincidentMirrorsNoReflection ==
   last.op = "calculateRayPath" /\ mirrorAngle = 0
      => Max(0, last.arg.pathLength - 2) = 0 /\ last.arg.hits = << >>

C23_Witness ==
   /\ last.op = "calculateRayPath"
   /\ mirrorAngle = 0
   /\ last.arg.hits = << 1 >>
   /\ last.arg.escaped
   /\ last.arg.pathLength = 3

(***************************************************************************)
(* C24: every intersection that intersectRaySegment returns has a normal   *)
(* whose dot product with the direction of the incoming ray is strictly    *)
(* negative, whichever side of the mirror the ray comes from.              *)
(***************************************************************************)
C24_NormalAgainstRay ==
   last.op = "calculateRayPath"
      => \A k \in 1 .. Len(last.arg.found) :
            Cos(last.arg.found[k].normal - last.arg.dirs[k]) < 0

C24_Witness ==
   /\ last.op = "calculateRayPath"
   /\ Len(last.arg.found) >= 2
   /\ last.arg.found[1].mirrorId = 1
   /\ last.arg.found[1].normal = Deg(90)
   /\ last.arg.found[2].mirrorId = 2
   /\ last.arg.found[2].normal = (mirrorAngle + Deg(270)) % FullTurn

(***************************************************************************)
(* C25: reflectVector is an involution for a unit normal, within the       *)
(* precision of the arithmetic: reflecting a unit vector twice about the   *)
(* same unit normal gives the vector back to within two units of the last  *)
(* place in each component.                                                *)
(***************************************************************************)
C25_InvolutionWithinEpsilon ==
   last.op = "reflectVector"
      => /\ Abs(last.arg.twice.x - last.arg.v.x) <= 2
         /\ Abs(last.arg.twice.y - last.arg.v.y) <= 2

(***************************************************************************)
(* C25 as stated: reflecting twice gives exactly the vector back.          *)
(***************************************************************************)
C25_InvolutionExact ==
   last.op = "reflectVector" => last.arg.twice = last.arg.v

C25_Witness ==
   /\ last.op = "reflectVector"
   /\ last.arg.once # last.arg.v
   /\ last.arg.twice # last.arg.v
   /\ Abs(last.arg.twice.x - last.arg.v.x) <= 2
   /\ Abs(last.arg.twice.y - last.arg.v.y) <= 2

(***************************************************************************)
(* Two points in polar form are the same point: both the apex, or the      *)
(* same radius along the same direction.                                   *)
(***************************************************************************)
samePoint(p, q) == (p.r = 0 /\ q.r = 0) \/ (p.r = q.r /\ p.a % FullTurn = q.a % FullTurn)

(***************************************************************************)
(* C26: calculateRayPath terminates after at most maxBounces reflections,  *)
(* the path has between 2 and maxBounces + 1 points, and every hit lies    *)
(* at a ray parameter above 0.001, at another point than the one the ray   *)
(* has just reflected at.                                                  *)
(***************************************************************************)
C26_TraceIsBounded ==
   last.op = "calculateRayPath"
      => /\ Len(last.arg.hits) <= maxBounces
         /\ last.arg.pathLength >= 2
         /\ last.arg.pathLength <= maxBounces + 1
         /\ \A k \in 1 .. Len(last.arg.found) :
               /\ last.arg.found[k].tInt > 0 \/ last.arg.found[k].tFrac >= 1
               /\ k > 1 => ~samePoint(last.arg.found[k].point[1],
                                       last.arg.found[k - 1].point[1])

C26_Witness ==
   /\ last.op = "calculateRayPath"
   /\ Len(last.arg.hits) = maxBounces
   /\ last.arg.pathLength = maxBounces + 1
   /\ ~last.arg.escaped

(***************************************************************************)
(* The origin of leg k of a trace and the hit of that leg on mirror j.     *)
(***************************************************************************)
legOrigin(k) ==
   IF k = 1 THEN sourcePos(incidentAngle, sourceDist, handleRadius)
   ELSE last.arg.found[k - 1].point

legHit(k, j) == intersectRaySegment(legOrigin(k), last.arg.dirs[k], << 0, mirrorAngle >>[j])

(***************************************************************************)
(* C27: at each bounce the tracer reflects off the mirror with the         *)
(* smallest positive ray parameter among the mirrors that are hit, and of  *)
(* two mirrors hit at the same ray parameter off the one that comes first  *)
(* in the list; it stops only on a leg that hits no mirror.                *)
(***************************************************************************)
C27_ClosestMirrorFirstOnTie ==
   last.op = "calculateRayPath"
      => /\ \A k \in 1 .. Len(last.arg.found) : \A j \in 1 .. 2 :
               LET c == last.arg.found[k]
                   h == legHit(k, j)
               IN  h.hit
                      => \/ c.tInt < h.tInt
                         \/ c.tInt = h.tInt /\ c.tFrac < h.tFrac
                         \/ c.tInt = h.tInt /\ c.tFrac = h.tFrac /\ c.mirrorId <= j
         /\ last.arg.escaped
               => \A j \in 1 .. 2 : ~legHit(Len(last.arg.found) + 1, j).hit

C27_Witness ==
   /\ last.op = "calculateRayPath"
   /\ mirrorAngle = 0
   /\ last.arg.hits = << 1 >>
   /\ legHit(1, 2).hit
   /\ legHit(1, 2).tInt = last.arg.found[1].tInt
   /\ legHit(1, 2).tFrac = last.arg.found[1].tFrac

C29_PointsAndJewelsOnlyGrowOnProgress ==
   [][ last'.op # "resetGame"
          => /\ gameState'.points >= gameState.points
             /\ gameState'.jewels >= gameState.jewels
             /\ (gameState'.points # gameState.points
                    \/ gameState'.jewels # gameState.jewels)
                   => \/ gameState'.challenge > gameState.challenge
                      \/ gameState'.c1Progress.methodA /\ ~gameState.c1Progress.methodA
                      \/ gameState'.c1Progress.methodB /\ ~gameState.c1Progress.methodB
     ]_vars

C29_Witness ==
   /\ last.op = "onInteractionEnd"
   /\ last.from = 1
   /\ gameState.challenge = 1
   /\ gameState.points = last.points + 10
   /\ gameState.c1Progress.methodB
   /\ ~gameState.c1Progress.methodA

(***************************************************************************)
(* C30: an evaluation in challenge 5 with the mirror inside the target     *)
(* band and no baseline yet records the baseline (c5MirrorAngle,           *)
(* c5StartAngle) from the current angles and leaves quizTriggered alone;   *)
(* with a baseline, it overwrites both fields with the current angles      *)
(* exactly when the in-band mirror angle differs from c5MirrorAngle by     *)
(* more than 2 degrees; with the mirror outside the band it leaves the     *)
(* baseline untouched.                                                     *)
(***************************************************************************)
C30_Challenge5Baseline ==
   [][ gameState.challenge = 5 /\ Evaluated
          => IF ~inTargetRange(mirrorAngle')
             THEN /\ gameState'.c5MirrorAngle = gameState.c5MirrorAngle
                  /\ gameState'.c5StartAngle = gameState.c5StartAngle
             ELSE IF gameState.c5MirrorAngle = << >>
             THEN /\ gameState'.c5MirrorAngle = << mirrorAngle' >>
                  /\ gameState'.c5StartAngle = << incidentAngle' >>
                  /\ quizTriggered' = quizTriggered
             ELSE IF Abs(gameState.c5MirrorAngle[1] - mirrorAngle') > Deg(2)
             THEN /\ gameState'.c5MirrorAngle = << mirrorAngle' >>
                  /\ gameState'.c5StartAngle = << incidentAngle' >>
             ELSE /\ gameState'.c5MirrorAngle = gameState.c5MirrorAngle
                  /\ gameState'.c5StartAngle = gameState.c5StartAngle
     ]_vars

C30_Witness ==
   /\ last.op = "adjustAngle"
   /\ last.from = 5
   /\ gameState.challenge = 5
   /\ inTargetRange(mirrorAngle)
   /\ gameState.c5MirrorAngle = << mirrorAngle >>
   /\ gameState.c5StartAngle # << incidentAngle >>
   /\ ~quizTriggered

(***************************************************************************)
(* C31: in challenge 5 an evaluation makes quiz 2 pending only with the    *)
(* mirror within 5 degrees of 110, a baseline whose c5MirrorAngle is       *)
(* within 2 degrees of the mirror angle, and the incident angle more than  *)
(* 10 degrees from c5StartAngle; and the step from challenge 5 to the      *)
(* terminal challenge 7 finds the baseline recorded and the quiz pending,  *)
(* that is, at least two in-band evaluations came before the answer.       *)
(***************************************************************************)
C31_Quiz2AfterBaselineAndMove ==
   [][ /\ gameState.challenge = 5 /\ Evaluated /\ ~quizTriggered /\ quizTriggered'
          => /\ Abs(mirrorAngle' - Deg(110)) <= Deg(5)
             /\ gameState.c5MirrorAngle # << >>
             /\ gameState.c5StartAngle # << >>
             /\ Abs(gameState.c5MirrorAngle[1] - mirrorAngle') <= Deg(2)
             /\ Abs(incidentAngle' - gameState.c5StartAngle[1]) > Deg(10)
       /\ gameState.challenge = 5 /\ gameState'.challenge = 7
          => /\ quizTriggered
             /\ gameState.c5MirrorAngle # << >>
             /\ gameState.c5StartAngle # << >>
     ]_vars

C31_Witness ==
   /\ last.op = "handleQuizAnswer"
   /\ last.arg = 1
   /\ last.from = 5
   /\ ~last.quizTriggered
   /\ gameState.challenge = 7
   /\ gameState.points = 150
   /\ gameState.c5MirrorAngle = << >>

(***************************************************************************)
(* C32: one pass of handleInteractionEnd advances the challenge id by at   *)
(* most one step, whatever the configuration.                              *)
(***************************************************************************)
C32_OnePassOneStep ==
   [][ Evaluated
          => \/ gameState'.challenge = gameState.challenge
             \/ gameState'.challenge = gameState.challenge + 1 ]_vars

C32_Witness ==
   /\ last.op = "onInteractionEnd"
   /\ last.from = 2
   /\ gameState.challenge = 3
   /\ mirrorAngle = Deg(90)
   /\ memo.reflectionCount = 2
   /\ finalDot(memo) < -9900

(***************************************************************************)
(* C33: challenge id 6 is unreachable: in every reachable state the        *)
(* challenge is one of 0, 1, 2, 3, 4, 5, 7, and the only step that enters  *)
(* 7 is handleQuizAnswer with the correct index 1 of quiz 2, taken in      *)
(* challenge 5.                                                            *)
(***************************************************************************)
C33_NoTheoryQuizState ==
   /\ [](gameState.challenge \in { 0, 1, 2, 3, 4, 5, 7 })
   /\ [][ gameState'.challenge = 7 /\ gameState.challenge # 7
             => /\ gameState.challenge = 5
                /\ last'.op = "handleQuizAnswer"
                /\ last'.arg = 1 ]_vars

C33_Witness ==
   /\ last.op = "handleQuizAnswer"
   /\ last.arg = 1
   /\ last.from = 5
   /\ last.quizTriggered
   /\ gameState.challenge = 7
   /\ gameState.c5StartAngle # << >>

(***************************************************************************)
(* C34: a quiz is pending only in challenge 4 or 5, and every step that    *)
(* changes the challenge id leaves no quiz pending.                        *)
(***************************************************************************)
C34_QuizOnlyInChallenge4Or5 ==
   /\ [](quizTriggered => gameState.challenge \in { 4, 5 })
   /\ [][ gameState'.challenge # gameState.challenge => ~quizTriggered' ]_vars

C34_Witness ==
   /\ last.op = "handleQuizAnswer"
   /\ last.arg = 0
   /\ last.quizTriggered
   /\ last.from = 4
   /\ gameState.challenge = 5
   /\ ~quizTriggered

(***************************************************************************)
(* C35: in the variant without the skip option, whenever the challenge is  *)
(* 7 the totals are exactly 150 points and 1 jewel, whatever wrong answers *)
(* and further interactions occurred.                                      *)
(***************************************************************************)
C35_TerminalTotals ==
   gameState.challenge = 7 => gameState.points = 150 /\ gameState.jewels = 1

C35_Witness ==
   /\ last.op = "onInteractionEnd"
   /\ last.from = 7
   /\ last.points = 150
   /\ gameState.challenge = 7
   /\ gameState.points = 150
   /\ gameState.jewels = 1

(***************************************************************************)
(* C36: in challenge 0 (the tutorial) an evaluation or a quiz answer       *)
(* leaves challenge, points, jewels and the method flags unchanged         *)
(* whatever the configuration; the challenge leaves 0 only by              *)
(* tutorial-next at the last tutorial step; and tutorial-next changes      *)
(* nothing in any other challenge.                                         *)
(***************************************************************************)
C36_TutorialIsInert ==
   [][ /\ gameState.challenge = 0
          /\ last'.op \in { "onInteractionEnd", "adjustAngle", "handleQuizAnswer" }
          => /\ gameState'.challenge = 0
             /\ gameState'.points = gameState.points
             /\ gameState'.jewels = gameState.jewels
             /\ gameState'.c1Progress = gameState.c1Progress
       /\ gameState.challenge = 0 /\ gameState'.challenge # 0
          => /\ last'.op = "handleTutorialNext"
             /\ gameState.tutorialStep = TutorialLength[variant] - 1
             /\ gameState'.challenge = 1
       /\ gameState.challenge # 0 /\ last'.op = "handleTutorialNext"
          => gameState' = gameState
     ]_vars

C36_Witness ==
   /\ last.op = "onInteractionEnd"
   /\ last.from = 0
   /\ gameState.challenge = 0
   /\ gameState.tutorialStep < TutorialLength[variant] - 1
   /\ memo.reflectionCount = 1
   /\ gameState.c1Progress = [methodA |-> FALSE, methodB |-> FALSE]
   /\ gameState.points = 0

(***************************************************************************)
(* C37: the initial configuration (mirror angle 50, incident angle 60,     *)
(* source distance 30, incident point at distance 60 on mirror 1), as      *)
(* startGame sets it, gives a path with exactly 2 reflections.             *)
(***************************************************************************)
C37_InitialConfigurationTwoReflections ==
   /\ last.op = "startGame"
   /\ mirrorAngle = Deg(50)
   /\ incidentAngle = Deg(60)
   /\ sourceDist = 30
   /\ fixedIncidentDist(handleRadius) = 60
   => memo.reflectionCount = 2

C37_Witness ==
   /\ last.op = "startGame"
   /\ mirrorAngle = Deg(50)
   /\ incidentAngle = Deg(60)
   /\ sourceDist = 30
   /\ fixedIncidentDist(handleRadius) = 60
   /\ memo.hits = << 1, 2, 1 >>
   /\ memo.reflectionCount = 3

(***************************************************************************)
(* C38: for every path with exactly 2 reflections at mirror angle theta    *)
(* the total deviation, the atan2(cross, dot) angle from the initial to    *)
(* the final direction folded into [0, 360), is 360 - 2 theta degrees.     *)
(***************************************************************************)
C38_DeviationIsFullTurnLessTwiceMirror ==
   last.op = "calculateRayPath" /\ Max(0, last.arg.pathLength - 2) = 2
      => angleDeg(last.arg) = (FullTurn - 2 * mirrorAngle) % FullTurn

C38_Witness ==
   /\ last.op = "calculateRayPath"
   /\ Max(0, last.arg.pathLength - 2) = 2
   /\ last.arg.hits = << 1, 2 >>
   /\ mirrorAngle = Deg(50)
   /\ angleDeg(last.arg) = Deg(100)
   /\ currentDeflection(last.arg) = 100

(***************************************************************************)
(* C39: in the debounced variant, after the timer has fired and a          *)
(* challenge transition was taken, no further evaluation runs until the    *)
(* user changes the mirror or the incident angle: the next step is not     *)
(* another firing of the timer.                                            *)
(***************************************************************************)
C39_NoEvaluationAfterTransition ==
   [][ last.op = "setTimeout" /\ gameState.challenge # last.from
          => last'.op # "setTimeout" ]_vars

C39_Witness ==
   /\ last.op = "setTimeout"
   /\ last.from = 2
   /\ gameState.challenge = 3
   /\ mirrorAngle = Deg(90)
   /\ incidentAngle = Deg(60)
   /\ last.arg.mirrorAngle = Deg(90)
   /\ last.arg.incidentAngle = Deg(60)
   /\ timers.pending = { timerOf(Deg(90), Deg(60), gameState) }

=============================================================================
